---- MODULE Spec2Model ----
(***************************************************************************)
(* Model of DCGAN_CIFAR10/model.py: the layer blocks (_bn, conv2d, linear) *)
(* and the two networks (generator, discriminator).                        *)
(*                                                                         *)
(* Graph construction is modelled on static tensor shapes: a tensor is the *)
(* sequence of its dimensions, the parameter registry is the set of        *)
(* variables created through tf.get_variable, and the graph of a network   *)
(* is the chain of the ops its construction function adds.                 *)
(*                                                                         *)
(* Graph execution is modelled in fixed point (Unit = 1.0) on one feature  *)
(* per sample: a batch is a sequence of numbers, and the only coupling     *)
(* between the samples of a batch is the batch-normalization statistics.   *)
(***************************************************************************)
EXTENDS Integers, Sequences, FiniteSets, TLC

\* ------------------------------------------------------------------------
\* Bounds of the explored inputs
\* ------------------------------------------------------------------------
MaxBatch == 2
MaxDim == 4
MaxImg == 2

\* side lengths handed to generator: the multiples of 16 and, next to each,
\* a length that 16 does not divide (14, 30, 46, 62)
SideLengths == {16 * k : k \in 1..MaxDim} \cup {16 * k - 2 : k \in 1..MaxDim}
BatchSizes == 1..MaxBatch
\* the length of the latent vectors
ZLens == {100}
ImageSides == 1..MaxImg
ImageChannels == {1, 3}
\* the is_train argument: a boolean tensor of the caller, or None
IsTrainArgs == {"tensor", "None"}

\* ------------------------------------------------------------------------
\* Shapes
\* ------------------------------------------------------------------------
STRIDE_1 == <<1, 1, 1, 1>>
STRIDE_2 == <<1, 2, 2, 1>>

\* top_shape=None
NoShape == <<>>

Last(s) == s[Len(s)]
SecondLast(s) == s[Len(s) - 1]
CeilDiv(a, b) == (a + b - 1) \div b

RECURSIVE NumElements(_)
NumElements(s) == IF s = <<>> THEN 1 ELSE Head(s) * NumElements(Tail(s))

\* ------------------------------------------------------------------------
\* Construction state: st = [reg, ops, err, top]
\*   reg  the variables registered so far, each [scope, name, shape]
\*   ops  the ops added to the graph so far, in order
\*   err  "ok", or the exception that ended the construction
\*   top  the shape of the tensor the last op produced
\* ------------------------------------------------------------------------
Fail(st, e) == [st EXCEPT !.err = e, !.top = NoShape]

AddOp(st, o, scope, shape, pred, out) ==
    [st EXCEPT !.ops = Append(@, [op |-> o, scope |-> scope, shape |-> shape,
                                  pred |-> pred, out |-> out]),
               !.top = out]

\* tf.get_variable in the default variable scope (reuse is never set by
\* model.py): a name that exists already raises ValueError
get_variable(st, scope, name, shape) ==
    IF st.err # "ok" THEN st
    ELSE IF \E v \in st.reg : v.scope = scope /\ v.name = name
         THEN Fail(st, "ValueError")
         ELSE [st EXCEPT !.reg = @ \cup {[scope |-> scope, name |-> name,
                                          shape |-> shape]}]

\* ------------------------------------------------------------------------
\* Framework ops: shape inference and shape validation
\* ------------------------------------------------------------------------
\* variant: padding="VALID", which has no output for an input smaller than
\* the kernel
conv2d_op_valid(st, scope, bottom, weights, strides) ==
    IF st.err # "ok" THEN st
    ELSE IF Len(bottom) # 4 \/ bottom[4] # weights[3]
            \/ bottom[2] < weights[1] \/ bottom[3] < weights[2]
         THEN Fail(st, "ValueError")
         ELSE AddOp(st, "conv2d", scope, weights, "",
                    <<bottom[1], (bottom[2] - weights[1]) \div strides[2] + 1,
                      (bottom[3] - weights[2]) \div strides[3] + 1, weights[4]>>)

\* tf.nn.conv2d, padding="SAME": weights are [h, w, in, out]
conv2d_op(st, scope, bottom, weights, strides) ==
    IF st.err # "ok" THEN st
    ELSE IF Len(bottom) # 4 \/ bottom[4] # weights[3]
         THEN Fail(st, "ValueError")
         ELSE AddOp(st, "conv2d", scope, weights, "",
                    <<bottom[1], CeilDiv(bottom[2], strides[2]),
                      CeilDiv(bottom[3], strides[3]), weights[4]>>)

\* tf.nn.conv2d_transpose, padding="SAME": weights are [h, w, out, in] and
\* the result has the shape the caller asks for, which must be a shape
\* whose forward "SAME" convolution gives the input's shape
conv2d_transpose_op(st, scope, bottom, weights, top_shape, strides) ==
    IF st.err # "ok" THEN st
    ELSE IF \/ Len(bottom) # 4
            \/ Len(top_shape) # 4
            \/ bottom[4] # weights[4]
            \/ top_shape[4] # weights[3]
         THEN Fail(st, "ValueError")
         ELSE IF \/ bottom[1] # top_shape[1]
                 \/ bottom[2] # CeilDiv(top_shape[2], strides[2])
                 \/ bottom[3] # CeilDiv(top_shape[3], strides[3])
              THEN Fail(st, "ValueError")
              ELSE AddOp(st, "conv2d_transpose", scope, weights, "", top_shape)

\* tf.matmul
matmul_op(st, scope, bottom, weights) ==
    IF st.err # "ok" THEN st
    ELSE IF Len(bottom) # 2 \/ bottom[2] # weights[1]
         THEN Fail(st, "ValueError")
         ELSE AddOp(st, "matmul", scope, weights, "", <<bottom[1], weights[2]>>)

\* tf.nn.bias_add: the bias is added along the last axis
bias_add_op(st, scope, value, bias_shape) ==
    IF st.err # "ok" THEN st
    ELSE IF Last(value) # bias_shape[1]
         THEN Fail(st, "ValueError")
         ELSE AddOp(st, "bias_add", scope, bias_shape, "", value)

\* tf.reshape
reshape_op(st, bottom, shape) ==
    IF st.err # "ok" THEN st
    ELSE IF NumElements(bottom) # NumElements(shape)
         THEN Fail(st, "ValueError")
         ELSE AddOp(st, "reshape", "", NoShape, "", shape)

\* variant: the mean over the batch axis too, tf.reduce_mean(x, [0, 1, 2])
reduce_mean_op_batch(st, bottom) ==
    IF st.err # "ok" THEN st
    ELSE AddOp(st, "reduce_mean", "", NoShape, "", <<bottom[4]>>)

\* tf.reduce_mean(x, [1, 2])
reduce_mean_op(st, bottom) ==
    IF st.err # "ok" THEN st
    ELSE AddOp(st, "reduce_mean", "", NoShape, "", <<bottom[1], bottom[4]>>)

relu(st) == IF st.err # "ok" THEN st ELSE AddOp(st, "relu", "", NoShape, "", st.top)

tanh(st) == IF st.err # "ok" THEN st ELSE AddOp(st, "tanh", "", NoShape, "", st.top)

\* ------------------------------------------------------------------------
\* Layer blocks
\* ------------------------------------------------------------------------
\* the predicate of the tf.cond of a batch-norm op: the caller's tensor, or
\* the constant False that replaces None
bn_pred(is_train) == IF is_train = "None" THEN "False" ELSE is_train

_bn(st, scope, bottom, is_train) ==
    LET bn_shape == <<Last(bottom)>>
        s1 == get_variable(st, scope, "beta", bn_shape)
        s2 == get_variable(s1, scope, "gamma", bn_shape)
    IN  IF s2.err # "ok" THEN s2
        ELSE AddOp(s2, "bn", scope, bn_shape, bn_pred(is_train), bottom)

\* variant: the last axis whatever the layout
conv_bias_shape_last(shape, top_shape) == <<Last(shape)>>

\* bias length of a convolution block
conv_bias_shape(shape, top_shape) ==
    IF top_shape = NoShape THEN <<Last(shape)>> ELSE <<SecondLast(shape)>>

conv2d(st, name, bottom, shape, strides, top_shape, with_bn, is_train) ==
    LET s1 == IF with_bn THEN _bn(st, name, bottom, is_train) ELSE st
        s2 == get_variable(s1, name, "weights", shape)
        s3 == IF top_shape # NoShape
              THEN conv2d_transpose_op(s2, name, bottom, shape, top_shape, strides)
              ELSE conv2d_op(s2, name, bottom, shape, strides)
        bias_shape == conv_bias_shape(shape, top_shape)
        s4 == get_variable(s3, name, "biases", bias_shape)
    IN  bias_add_op(s4, name, s3.top, bias_shape)

linear(st, name, bottom, shape, with_bn, is_train) ==
    LET s1 == IF with_bn THEN _bn(st, name, bottom, is_train) ELSE st
        s2 == get_variable(s1, name, "weights", shape)
        s3 == matmul_op(s2, name, bottom, shape)
        bias_shape == <<Last(shape)>>
        s4 == get_variable(s3, name, "biases", bias_shape)
    IN  bias_add_op(s4, name, s3.top, bias_shape)

\* ------------------------------------------------------------------------
\* Networks
\* ------------------------------------------------------------------------
\* the construction state a call starts from: the graph holds the caller's
\* data tensor, and with it the is_train the caller passes
Enter(reg, data, is_train) ==
    AddOp([reg |-> reg, ops |-> <<>>, err |-> "ok", top |-> NoShape],
          "input", "", NoShape, is_train, data)

\* variant: a weaker assertion
side_length_even(side_length) == side_length % 2 = 0

\* assert side_length % 16 == 0
side_length_ok(side_length) == side_length % 16 = 0

\* project block, 1024 outputs
g_proj(st, data, z_len, dim) ==
    relu(linear(st, "g_proj", data, <<z_len, dim * dim * 1024>>, FALSE, "None"))

\* conv1 block, 512 outputs
g_conv1(st, batch_size, dim, is_train) ==
    relu(conv2d(st, "g_conv1", st.top, <<5, 5, 512, 1024>>, STRIDE_2,
                <<batch_size, dim, dim, 512>>, TRUE, is_train))

\* conv2 block, 256 outputs
g_conv2(st, batch_size, dim, is_train) ==
    relu(conv2d(st, "g_conv2", st.top, <<5, 5, 256, 512>>, STRIDE_2,
                <<batch_size, dim, dim, 256>>, TRUE, is_train))

\* conv3 block, 128 outputs
g_conv3(st, batch_size, dim, is_train) ==
    relu(conv2d(st, "g_conv3", st.top, <<5, 5, 128, 256>>, STRIDE_2,
                <<batch_size, dim, dim, 128>>, TRUE, is_train))

\* conv4 block, 64 outputs
g_conv4(st, batch_size, dim, is_train) ==
    relu(conv2d(st, "g_conv4", st.top, <<5, 5, 64, 128>>, STRIDE_2,
                <<batch_size, dim, dim, 64>>, TRUE, is_train))

\* variant: one output channel
g_conv5_gray(st, batch_size, dim, is_train) ==
    tanh(conv2d(st, "g_conv5", st.top, <<3, 3, 1, 64>>, STRIDE_1,
                <<batch_size, dim, dim, 1>>, TRUE, is_train))

\* variant: a regular convolution, no top_shape, weights [h, w, in, out]
g_conv5_regular(st, batch_size, dim, is_train) ==
    tanh(conv2d(st, "g_conv5", st.top, <<3, 3, 64, 3>>, STRIDE_1,
                NoShape, TRUE, is_train))

\* conv5 block, 3 outputs
g_conv5(st, batch_size, dim, is_train) ==
    tanh(conv2d(st, "g_conv5", st.top, <<3, 3, 3, 64>>, STRIDE_1,
                <<batch_size, dim, dim, 3>>, TRUE, is_train))

generator(reg, data, is_train, side_length) ==
    IF ~side_length_ok(side_length)
    THEN Fail(Enter(reg, data, is_train), "AssertionError")
    ELSE LET dim0 == side_length \div 16
             batch_size == data[1]
             z_len == data[2]
             proj == g_proj(Enter(reg, data, is_train), data, z_len, dim0)
             rshp == reshape_op(proj, proj.top, <<batch_size, dim0, dim0, 1024>>)
             dim1 == dim0 * 2
             conv1 == g_conv1(rshp, batch_size, dim1, is_train)
             dim2 == dim1 * 2
             conv2 == g_conv2(conv1, batch_size, dim2, is_train)
             dim3 == dim2 * 2
             conv3 == g_conv3(conv2, batch_size, dim3, is_train)
             dim4 == dim3 * 2
             conv4 == g_conv4(conv3, batch_size, dim4, is_train)
             conv5 == g_conv5(conv4, batch_size, dim4, is_train)
         IN  conv5

\* conv1 block, 128 outputs
d_conv1(st, data) ==
    relu(conv2d(st, "d_conv1", data, <<5, 5, 3, 128>>, STRIDE_2, NoShape, FALSE, "None"))

\* conv2 block, 256 outputs
d_conv2(st, is_train) ==
    relu(conv2d(st, "d_conv2", st.top, <<5, 5, 128, 256>>, STRIDE_2, NoShape, TRUE, is_train))

\* variant: is_train not handed on
d_conv3_noflag(st, is_train) ==
    relu(conv2d(st, "d_conv3", st.top, <<5, 5, 256, 512>>, STRIDE_2, NoShape, TRUE, "None"))

\* conv3 block, 512 outputs
d_conv3(st, is_train) ==
    relu(conv2d(st, "d_conv3", st.top, <<5, 5, 256, 512>>, STRIDE_2, NoShape, TRUE, is_train))

\* conv4 block, 1024 outputs
d_conv4(st, is_train) ==
    relu(conv2d(st, "d_conv4", st.top, <<5, 5, 512, 1024>>, STRIDE_2, NoShape, TRUE, is_train))

\* fully connected
d_classifier(st) ==
    linear(st, "d_classifier", st.top, <<1024, 1>>, FALSE, "None")

discriminator(reg, data, is_train) ==
    LET conv1 == d_conv1(Enter(reg, data, is_train), data)
        conv2 == d_conv2(conv1, is_train)
        conv3 == d_conv3(conv2, is_train)
        conv4 == d_conv4(conv3, is_train)
        avg_pool == reduce_mean_op(conv4, conv4.top)
        classifier == d_classifier(avg_pool)
    IN  classifier

\* ------------------------------------------------------------------------
\* Graph construction as a state machine
\* ------------------------------------------------------------------------
VARIABLES
    registry,   \* the variables tf.get_variable has created
    graph,      \* per network, the op chain of its successful construction
    ret,        \* the last construction call: arguments, outcome, output shape
    moving,     \* per batch-norm scope, the moving mean and variance
    params,     \* the value of the convolution and matmul weights
    run,        \* the last execution: network, flag, input, output
    ref,        \* per network, the first Probe sample inferred since it last trained
    ntrain,     \* number of training executions so far
    batch       \* the batch size of the tensors the caller builds on

xvars == <<moving, params, run, ref, ntrain, batch>>
vars == <<registry, graph, ret, moving, params, run, ref, ntrain, batch>>

Nets == {"G", "D"}
GScopes == {"g_proj", "g_conv1", "g_conv2", "g_conv3", "g_conv4", "g_conv5"}
DScopes == {"d_conv1", "d_conv2", "d_conv3", "d_conv4", "d_classifier"}

NoCall == [fn |-> "", data |-> NoShape, is_train |-> "None", side_length |-> 0,
           before |-> {}, err |-> "ok", top |-> NoShape]

\* the caller keeps the op chain only of a construction that returned
Built(net, st) == IF st.err = "ok" THEN [graph EXCEPT ![net] = st.ops] ELSE graph

CallGenerator(data, is_train, side_length) ==
    \E st \in {generator(registry, data, is_train, side_length)} :
        /\ registry' = st.reg
        /\ graph' = Built("G", st)
        /\ ret' = [fn |-> "generator", data |-> data, is_train |-> is_train,
                   side_length |-> side_length, before |-> registry,
                   err |-> st.err, top |-> st.top]

CallDiscriminator(data, is_train) ==
    \E st \in {discriminator(registry, data, is_train)} :
        /\ registry' = st.reg
        /\ graph' = Built("D", st)
        /\ ret' = [fn |-> "discriminator", data |-> data, is_train |-> is_train,
                   side_length |-> 0, before |-> registry,
                   err |-> st.err, top |-> st.top]

\* ------------------------------------------------------------------------
\* Graph execution, in fixed point
\* ------------------------------------------------------------------------
\* One sample carries one feature.  A value v stands for v / Unit and a
\* variance for var / Unit^2; Unit is chosen so that the 1e-4 of
\* tf.nn.batch_normalization is one unit of variance.
Unit == 100
Epsilon == 1

\* tf.train.ExponentialMovingAverage(decay=0.9)
DecayNum == 9
DecayDen == 10

\* initial values: beta 0.0, gamma 1.0, biases 0
BetaInit == 0
GammaInit == Unit
BiasInit == 0

MaxTrain == 2

\* the feature values fed to a network: 0.0 and 10.0
FeedVals == {0, 10 * Unit}
\* the value the weights have in every execution: 0.02, the standard
\* deviation of their initializer (it draws them once, and no op of these
\* graphs assigns them)
WeightInit == 2

\* a function on 1..n as the tuple of its values
Tuple(f) == f \o <<>>

RECURSIVE SumSeq(_)
SumSeq(s) == IF s = <<>> THEN 0 ELSE Head(s) + SumSeq(Tail(s))

Abs(v) == IF v < 0 THEN -v ELSE v

\* largest r in lo..hi with r * r <= v
RECURSIVE SqrtIn(_, _, _)
SqrtIn(v, lo, hi) ==
    IF lo = hi THEN lo
    ELSE LET mid == (lo + hi + 1) \div 2
         IN  IF mid * mid <= v THEN SqrtIn(v, mid, hi) ELSE SqrtIn(v, lo, mid - 1)

ISqrt(v) == SqrtIn(v, 0, IF v < 40000 THEN v ELSE 40000)

\* tf.nn.moments over every axis but the last
moments(bottom) ==
    LET n == Len(bottom)
        mu == SumSeq(bottom) \div n
    IN  [mu |-> mu,
         var |-> SumSeq([i \in 1..n |-> (bottom[i] - mu) * (bottom[i] - mu)]) \div n]

\* ema.apply for one shadow variable: shadow -= (1 - decay) * (shadow - value)
ema_average(shadow, value) == (DecayNum * shadow + (DecayDen - DecayNum) * value) \div DecayDen

\* variant: normalizing with the moving average just updated
train_op_moving(mov, mu, var) ==
    [mov |-> [mu |-> ema_average(mov.mu, mu), var |-> ema_average(mov.var, var)],
     mean |-> ema_average(mov.mu, mu), variance |-> ema_average(mov.var, var)]

\* both branches give the state of the moving statistics after the branch
\* and the (mean, variance) pair it returns
train_op(mov, mu, var) ==
    [mov |-> [mu |-> ema_average(mov.mu, mu), var |-> ema_average(mov.var, var)],
     mean |-> mu, variance |-> var]

\* variant: the moving average is updated in inference too
test_op_updating(mov, mu, var) ==
    [mov |-> [mu |-> ema_average(mov.mu, mu), var |-> ema_average(mov.var, var)],
     mean |-> mov.mu, variance |-> mov.var]

\* variant: inference normalizes with the statistics of the batch
test_op_batch(mov, mu, var) ==
    [mov |-> mov, mean |-> mu, variance |-> var]

test_op(mov, mu, var) ==
    [mov |-> mov, mean |-> mov.mu, variance |-> mov.var]

\* the value of the predicate of tf.cond, fed being the value of the
\* caller's is_train tensor in this execution
pred_value(pred, fed) == IF pred = "False" THEN FALSE ELSE fed

\* tf.nn.batch_normalization(x, mean, variance, shift, scale, 1e-4):
\* (x - mean) * scale / sqrt(variance + 1e-4) + shift
batch_normalization(x, mean, variance, shift, scale) ==
    (((x - mean) * scale) \div ISqrt(variance + Epsilon)) + shift

\* executing a batch-norm op on a batch, from the moving statistics mov
bn_exec(bottom, mov, pred, fed) ==
    LET m == moments(bottom)
        r == IF pred_value(pred, fed)
             THEN train_op(mov, m.mu, m.var)
             ELSE test_op(mov, m.mu, m.var)
    IN  [mov |-> r.mov, mean |-> r.mean, variance |-> r.variance,
         top |-> Tuple([i \in 1..Len(bottom) |->
                           batch_normalization(bottom[i], r.mean, r.variance,
                                               BetaInit, GammaInit)])]

\* tf.nn.relu
relu_exec(v) == IF v > 0 THEN v ELSE 0

\* tf.nn.tanh: below 0.06 the hyperbolic tangent of v is v to two decimals;
\* from there on it is rounded to one decimal, TanhSteps[k] being the least
\* |v| whose hyperbolic tangent rounds to k / 10
TanhSteps == <<6, 16, 26, 37, 49, 62, 78, 98, 126, 184>>
tanh_exec(v) ==
    LET k == Cardinality({j \in 1..Len(TanhSteps) : TanhSteps[j] <= Abs(v)})
    IN  IF k = 0 THEN v
        ELSE IF v < 0 THEN -((k * Unit) \div 10) ELSE (k * Unit) \div 10

\* the batch after one op other than batch normalization
op_exec(o, bottom, w) ==
    Tuple([i \in 1..Len(bottom) |->
        CASE o.op \in {"conv2d", "conv2d_transpose", "matmul"} ->
                 (w[o.scope] * bottom[i]) \div Unit
          [] o.op = "bias_add" -> bottom[i] + BiasInit
          [] o.op = "relu" -> relu_exec(bottom[i])
          [] o.op = "tanh" -> tanh_exec(bottom[i])
          [] OTHER -> bottom[i]])

\* session.run of the output of an op chain: e = [x, mov, used], the batch,
\* the moving statistics of every scope, and per executed batch-norm scope
\* the statistics it normalized with
RECURSIVE Exec(_, _, _, _)
Exec(ops, e, w, fed) ==
    IF ops = <<>> THEN e
    ELSE LET o == Head(ops)
             b == bn_exec(e.x, e.mov[o.scope], o.pred, fed)
         IN  IF o.op = "bn"
             THEN Exec(Tail(ops),
                       [x |-> b.top,
                        mov |-> [e.mov EXCEPT ![o.scope] = b.mov],
                        used |-> e.used \cup {[scope |-> o.scope, bottom |-> e.x,
                                              train |-> pred_value(o.pred, fed),
                                              mean |-> b.mean,
                                              variance |-> b.variance,
                                              top |-> b.top]}],
                       w, fed)
             ELSE Exec(Tail(ops), [e EXCEPT !.x = op_exec(o, e.x, w)], w, fed)

\* ------------------------------------------------------------------------
\* Graph execution as a state machine
\* ------------------------------------------------------------------------
BNScopes == {"g_conv1", "g_conv2", "g_conv3", "g_conv4", "g_conv5",
             "d_conv2", "d_conv3", "d_conv4"}

\* the shadow variables of ema.apply start at zero
MovingInit == [s \in BNScopes |-> [mu |-> 0, var |-> 0]]

NoRun == [net |-> "", fed |-> FALSE, x |-> <<>>, out |-> <<>>, used |-> {},
          before |-> MovingInit]

\* the batch-norm scopes of a network, and their part of the statistics
NetScopes(net) == IF net = "G" THEN BNScopes \cap GScopes ELSE BNScopes \cap DScopes
StatsOf(net, mov) == [s \in NetScopes(net) |-> mov[s]]

\* the sample value whose inference output is kept for reference
Probe == 10 * Unit

\* no reference sample yet
NoRef == [set |-> FALSE, x |-> 0, out |-> 0, before |-> <<>>]

\* the static batch size of a built network
BatchOf(ops) == ops[1].out[1]

\* an execution is a training execution when some tf.cond took train_op
Trains(ops, fed) == \E i \in 1..Len(ops) : ops[i].op = "bn" /\ pred_value(ops[i].pred, fed)

RunNet(net, x, fed) ==
    /\ graph[net] # <<>>
    /\ Len(x) = BatchOf(graph[net])
    /\ Trains(graph[net], fed) => ntrain < MaxTrain
    /\ \E e \in {Exec(graph[net], [x |-> x, mov |-> moving, used |-> {}], params, fed)} :
          /\ moving' = e.mov
          /\ run' = [net |-> net, fed |-> fed, x |-> x, out |-> e.x, used |-> e.used,
                     before |-> moving]
          /\ ntrain' = IF Trains(graph[net], fed) THEN ntrain + 1 ELSE ntrain
          /\ ref' = IF Trains(graph[net], fed)
                    THEN [ref EXCEPT ![net] = NoRef]
                    ELSE IF ~ref[net].set /\ x[1] = Probe
                         THEN [ref EXCEPT ![net] = [set |-> TRUE, x |-> x[1], out |-> e.x[1],
                                                    before |-> StatsOf(net, moving)]]
                         ELSE ref
    /\ UNCHANGED <<registry, graph, ret, params, batch>>

Batches(n) == [1..n -> FeedVals]

RunGenerator ==
    \E x \in Batches(batch) : \E fed \in BOOLEAN : RunNet("G", x, fed)

RunDiscriminator ==
    \E x \in Batches(batch) : \E fed \in BOOLEAN : RunNet("D", x, fed)

\* ------------------------------------------------------------------------
\* Specifications
\* ------------------------------------------------------------------------
ParamsInit == [s \in GScopes \cup DScopes |-> WeightInit]

\* construction, from the empty graph
Init ==
    /\ registry = {}
    /\ graph = [n \in Nets |-> <<>>]
    /\ ret = NoCall
    /\ moving = MovingInit
    /\ params = ParamsInit
    /\ run = NoRun
    /\ ref = [n \in Nets |-> NoRef]
    /\ ntrain = 0
    /\ batch \in BatchSizes

BuildGenerator ==
    /\ \E z \in ZLens : \E t \in IsTrainArgs : \E side \in SideLengths :
          CallGenerator(<<batch, z>>, t, side)
    /\ UNCHANGED xvars

\* the discriminator on a batch of images
BuildDiscriminator ==
    /\ \E h \in ImageSides : \E w \in ImageSides :
       \E c \in ImageChannels : \E t \in IsTrainArgs :
          CallDiscriminator(<<batch, h, w, c>>, t)
    /\ UNCHANGED xvars

\* the discriminator on the output of the generator
BuildDiscriminatorOnGenerated ==
    /\ graph["G"] # <<>>
    /\ \E t \in IsTrainArgs : CallDiscriminator(Last(graph["G"]).out, t)
    /\ UNCHANGED xvars

Next == BuildGenerator \/ BuildDiscriminator \/ BuildDiscriminatorOnGenerated

Spec == Init /\ [][Next]_vars

\* execution, from the graph of generator and discriminator(generator)
RunInit ==
    \E n \in BatchSizes : \E z \in ZLens : \E tg \in IsTrainArgs : \E td \in IsTrainArgs :
    \E g \in {generator({}, <<n, z>>, tg, 16)} :
    \E d \in {discriminator(g.reg, g.top, td)} :
            /\ batch = n
            /\ registry = d.reg
            /\ graph = [k \in Nets |-> IF k = "G" THEN g.ops ELSE d.ops]
            /\ ret = [fn |-> "discriminator", data |-> g.top, is_train |-> td,
                      side_length |-> 0, before |-> g.reg, err |-> d.err, top |-> d.top]
            /\ moving = MovingInit
            /\ params = ParamsInit
            /\ run = NoRun
            /\ ref = [k \in Nets |-> NoRef]
            /\ ntrain = 0

RunNext == RunGenerator \/ RunDiscriminator

RunSpec == RunInit /\ [][RunNext]_vars

\* ------------------------------------------------------------------------
\* Properties
\* ------------------------------------------------------------------------
ConvOps == {"conv2d", "conv2d_transpose"}

\* the last call found none of these scopes registered
Fresh(scopes) == \A v \in ret.before : v.scope \notin scopes

IsConv(o) == o.op \in ConvOps
Convs(ops) == SelectSeq(ops, IsConv)
IsBn(o) == o.op = "bn"
Bns(ops) == SelectSeq(ops, IsBn)
IsMatmul(o) == o.op = "matmul"
Matmuls(ops) == SelectSeq(ops, IsMatmul)
IsReshape(o) == o.op = "reshape"
Reshapes(ops) == SelectSeq(ops, IsReshape)

\* the input-channel and output-channel axes of a weight shape, by layout
InAxis(o) ==
    IF o.op = "conv2d_transpose" THEN o.shape[4]
    ELSE IF o.op = "conv2d" THEN o.shape[3] ELSE o.shape[1]
OutAxis(o) == IF o.op = "conv2d_transpose" THEN o.shape[3] ELSE o.shape[4]

GeneratorCalled == ret.fn = "generator" /\ ret.side_length % 16 = 0 /\ Fresh(GScopes)
DiscriminatorCalled == ret.fn = "discriminator" /\ ret.data[4] = 3 /\ Fresh(DScopes)

\* C1: a generator call with a side length divisible by 16 returns a tensor
\* of shape [N, side, side, 3]; the projection is reshaped to
\* side/16 x side/16 x 1024 and each of the four stride-2 stages doubles the
\* side and halves the channels, so the fourth stage is at the full side.
C1_GeneratorShape ==
    GeneratorCalled =>
        LET n == ret.data[1]
            s == ret.side_length
        IN  /\ ret.err = "ok"
            /\ ret.top = <<n, s, s, 3>>
            /\ Len(Reshapes(graph["G"])) = 1
            /\ Reshapes(graph["G"])[1].out = <<n, s \div 16, s \div 16, 1024>>
            /\ Len(Convs(graph["G"])) = 5
            /\ \A k \in 1..4 :
                  Convs(graph["G"])[k].out =
                     <<n, (s \div 16) * 2^k, (s \div 16) * 2^k, 1024 \div 2^k>>
            /\ Convs(graph["G"])[4].out[2] = s

C1_Witness ==
    /\ ret.fn = "generator"
    /\ ret.side_length = 64
    /\ ret.err = "ok"
    /\ ret.top = <<ret.data[1], 64, 64, 3>>
    /\ ret.data[1] = 2

\* C2: a generator call with a side length that 16 does not divide ends in
\* the assertion error and leaves the parameter registry as it found it.
C2_AssertBeforeAnyBlock ==
    (ret.fn = "generator" /\ ret.side_length % 16 # 0) =>
        /\ ret.err = "AssertionError"
        /\ registry = ret.before

C2_Witness ==
    /\ ret.fn = "generator"
    /\ ret.side_length = 30
    /\ ret.err = "AssertionError"
    /\ registry = ret.before

\* every convolution and matmul op reads a tensor whose channel count is the
\* input-channel axis of its weights
ChannelsFit(ops) ==
    \A i \in 2..Len(ops) :
        (IsConv(ops[i]) \/ IsMatmul(ops[i])) => Last(ops[i - 1].out) = InAxis(ops[i])

SpatialAtLeastOne(ops) ==
    \A i \in 1..Len(ops) : Len(ops[i].out) = 4 => ops[i].out[2] >= 1 /\ ops[i].out[3] >= 1

\* C3: the discriminator built on the generator's output returns N logits
\* without a shape error: in both networks every block's input channels
\* equal the input-channel axis of its weights, the spatial size stays at
\* least 1, and the pooled 1024-vector meets the [1024, 1] classifier.
C3_RoundTrip ==
    (/\ ret.fn = "discriminator"
     /\ graph["G"] # <<>>
     /\ ret.data = Last(graph["G"]).out
     /\ Fresh(DScopes)) =>
        /\ ret.err = "ok"
        /\ ret.top = <<ret.data[1], 1>>
        /\ ChannelsFit(graph["G"])
        /\ ChannelsFit(graph["D"])
        /\ SpatialAtLeastOne(graph["D"])
        /\ \E i \in 2..Len(graph["D"]) :
              /\ graph["D"][i].op = "matmul"
              /\ graph["D"][i].shape = <<1024, 1>>
              /\ graph["D"][i - 1].op = "reduce_mean"
              /\ graph["D"][i - 1].out = <<ret.data[1], 1024>>

C3_Witness ==
    /\ ret.fn = "discriminator"
    /\ graph["G"] # <<>>
    /\ ret.data = Last(graph["G"]).out
    /\ ret.data = <<2, 16, 16, 3>>
    /\ ret.err = "ok"
    /\ ret.top = <<2, 1>>

\* C4: the discriminator on N 3-channel images of any spatial size returns
\* a tensor of shape [N, 1], and every op of it keeps the batch dimension.
C4_DiscriminatorLogits ==
    DiscriminatorCalled =>
        /\ ret.err = "ok"
        /\ ret.top = <<ret.data[1], 1>>
        /\ \A i \in 1..Len(graph["D"]) : graph["D"][i].out[1] = ret.data[1]

C4_Witness ==
    /\ ret.fn = "discriminator"
    /\ ret.data = <<2, 1, 2, 3>>
    /\ ret.err = "ok"
    /\ ret.top = <<2, 1>>

\* C5 as stated: the generator has one linear block and five convolution
\* blocks, the first four transposed and the last one, g_conv5, regular.
C5_FourTransposedOneRegular ==
    graph["G"] # <<>> =>
        /\ Len(Matmuls(graph["G"])) = 1
        /\ Len(Convs(graph["G"])) = 5
        /\ \A k \in 1..4 : Convs(graph["G"])[k].op = "conv2d_transpose"
        /\ Convs(graph["G"])[5].scope = "g_conv5"
        /\ Convs(graph["G"])[5].op = "conv2d"

\* the spatial side of the input of the k-th convolution of a chain
ConvInSide(ops, k) ==
    LET i == CHOOSE j \in 1..Len(ops) : ops[j] = Convs(ops)[k]
    IN  ops[i - 1].out[2]

\* C5 amended: the generator has one linear block and five convolution
\* blocks, all five transposed: top_shape is passed to each of them, also
\* to g_conv5, which keeps the side (stride 1) and has 3 output channels,
\* while the four before it double the side; the discriminator's blocks,
\* which get no top_shape, are regular convolutions.
C5_AllFiveTransposed ==
    /\ graph["G"] # <<>> =>
          /\ Len(Matmuls(graph["G"])) = 1
          /\ Len(Convs(graph["G"])) = 5
          /\ \A k \in 1..5 : Convs(graph["G"])[k].op = "conv2d_transpose"
          /\ \A k \in 1..4 :
                Convs(graph["G"])[k].out[2] = 2 * ConvInSide(graph["G"], k)
          /\ Convs(graph["G"])[5].scope = "g_conv5"
          /\ Convs(graph["G"])[5].out[2] = ConvInSide(graph["G"], 5)
          /\ Convs(graph["G"])[5].out[4] = 3
    /\ graph["D"] # <<>> =>
          \A k \in 1..Len(Convs(graph["D"])) : Convs(graph["D"])[k].op = "conv2d"
    /\ GeneratorCalled => ret.err = "ok"

C5_Witness ==
    /\ graph["G"] # <<>>
    /\ graph["D"] # <<>>
    /\ Convs(graph["G"])[5].scope = "g_conv5"
    /\ Convs(graph["G"])[5].op = "conv2d_transpose"
    /\ Len(Convs(graph["D"])) = 4

\* every convolution is followed by the addition of a bias, registered under
\* the block's scope, whose length is the output-channel axis of the weights
BiasFits(ops) ==
    \A i \in 1..Len(ops) :
        IsConv(ops[i]) =>
            /\ i < Len(ops)
            /\ ops[i + 1].op = "bias_add"
            /\ ops[i + 1].shape = <<OutAxis(ops[i])>>
            /\ ops[i + 1].shape[1] = Last(ops[i].out)
            /\ [scope |-> ops[i].scope, name |-> "biases",
                shape |-> ops[i + 1].shape] \in registry

\* C9: in each of the nine convolution blocks the bias length is the number
\* of output channels of the convolution, the last axis of the weights of a
\* regular and the second-to-last of a transposed one, and it is the channel
\* count of the tensor the bias is added to.
C9_BiasIsOutputChannels ==
    /\ GeneratorCalled => ret.err = "ok" /\ Len(Convs(graph["G"])) = 5
    /\ DiscriminatorCalled => ret.err = "ok" /\ Len(Convs(graph["D"])) = 4
    /\ BiasFits(graph["G"])
    /\ BiasFits(graph["D"])

C9_Witness ==
    /\ Len(Convs(graph["G"])) + Len(Convs(graph["D"])) = 9
    /\ BiasFits(graph["G"])
    /\ BiasFits(graph["D"])
    /\ [scope |-> "g_conv5", name |-> "biases", shape |-> <<3>>] \in registry
    /\ [scope |-> "d_conv4", name |-> "biases", shape |-> <<1024>>] \in registry

\* the scopes of a chain that hold weights, and those that normalize
WeightScopes(ops) == {ops[i].scope : i \in {j \in 1..Len(ops) : IsConv(ops[j]) \/ IsMatmul(ops[j])}}
NormalizedScopes(ops) == {ops[i].scope : i \in {j \in 1..Len(ops) : IsBn(ops[j])}}

\* C10: every batch-norm op of a network has the caller's is_train as its
\* predicate, the blocks without the flag (g_proj, d_conv1, d_classifier)
\* are the blocks without batch normalization, and so no batch-norm op has
\* the constant False when the caller passes a tensor.
C10_FlagReachesEveryBatchNorm ==
    /\ \A net \in Nets :
          graph[net] # <<>> =>
              /\ \A i \in 1..Len(graph[net]) :
                    IsBn(graph[net][i]) =>
                        graph[net][i].pred = IF graph[net][1].pred = "None"
                                             THEN "False"
                                             ELSE graph[net][1].pred
              /\ graph[net][1].pred = "tensor" =>
                    \A i \in 1..Len(graph[net]) : graph[net][i].pred # "False"
    /\ graph["G"] # <<>> =>
          WeightScopes(graph["G"]) \ NormalizedScopes(graph["G"]) = {"g_proj"}
    /\ graph["D"] # <<>> =>
          WeightScopes(graph["D"]) \ NormalizedScopes(graph["D"]) = {"d_conv1", "d_classifier"}

C10_Witness ==
    /\ graph["G"] # <<>>
    /\ graph["D"] # <<>>
    /\ graph["G"][1].pred = "tensor"
    /\ graph["D"][1].pred = "tensor"
    /\ Len(Bns(graph["G"])) = 5
    /\ Len(Bns(graph["D"])) = 3
    /\ \A k \in 1..3 : Bns(graph["D"])[k].pred = "tensor"

\* an execution in which no batch-norm op took the training branch
Inference(r) == r.net # "" /\ \A u \in r.used : ~u.train

\* C6: the moving mean and variance of a batch-norm scope change only in a
\* step that executes it with a true training flag; an execution with the
\* flag false, or built without a flag, leaves them as they were.
C6_MovingChangesOnlyInTraining ==
    [][\A s \in BNScopes :
          moving'[s] # moving[s] =>
              /\ run'.fed
              /\ graph[run'.net][1].pred # "None"
              /\ \E u \in run'.used : u.scope = s /\ u.train]_vars

C6_Witness ==
    /\ run.net # ""
    /\ ~run.fed
    /\ run.used # {}
    /\ moving = run.before
    /\ \E s \in NetScopes(run.net) : moving[s].var # 0
    /\ \E u \in run.used : moments(u.bottom).var # moving[u.scope].var

\* C7: a batch-norm op executed with a true flag has updated the moving
\* average to 0.9 * old + 0.1 * batch and normalizes with the statistics of
\* the batch; executed with a false flag it normalizes with the stored
\* moving average and leaves it; built with None it does as with false.
C7_StatisticsFollowFlag ==
    \A u \in run.used :
        LET m == moments(u.bottom)
            old == run.before[u.scope]
        IN  /\ u.train = (run.fed /\ graph[run.net][1].pred # "None")
            /\ u.train =>
                  /\ moving[u.scope] = [mu |-> (9 * old.mu + m.mu) \div 10,
                                        var |-> (9 * old.var + m.var) \div 10]
                  /\ u.mean = m.mu
                  /\ u.variance = m.var
                  /\ \A i \in 1..Len(u.bottom) :
                        u.top[i] = ((u.bottom[i] - m.mu) * Unit) \div ISqrt(m.var + 1)
            /\ ~u.train =>
                  /\ moving[u.scope] = old
                  /\ u.mean = old.mu
                  /\ u.variance = old.var
                  /\ \A i \in 1..Len(u.bottom) :
                        u.top[i] = ((u.bottom[i] - old.mu) * Unit) \div ISqrt(old.var + 1)

C7_Witness ==
    /\ run.fed
    /\ \E u \in run.used :
          /\ u.train
          /\ run.before[u.scope].var # 0
          /\ u.variance # run.before[u.scope].var
          /\ u.variance # moving[u.scope].var
          /\ moving[u.scope] # run.before[u.scope]

\* C8: an inference execution changes no statistics, and the output of a
\* sample in it is the output the same sample had in the reference
\* inference execution under the same statistics, whatever the other
\* samples of the two batches and whatever inference ran in between.
C8_InferenceIsPerSample ==
    \A net \in Nets :
        (run.net = net /\ Inference(run)) =>
            /\ moving = run.before
            /\ (ref[net].set /\ ref[net].before = StatsOf(net, run.before)) =>
                  \A i \in 1..Len(run.x) :
                      run.x[i] = ref[net].x => run.out[i] = ref[net].out

C8_Witness ==
    /\ run.net = "G"
    /\ Inference(run)
    /\ ref["G"].set
    /\ ref["G"].before = StatsOf("G", run.before)
    /\ \E s \in NetScopes("G") : moving[s].var # 0
    /\ Len(run.x) = 2
    /\ run.x[2] = ref["G"].x
    /\ run.x[1] # ref["G"].x
    /\ run.out[2] = ref["G"].out
    /\ run.out[2] # run.out[1]

====
